---- MODULE Spec2Model ----
(***************************************************************************)
(* tfridge: scan a directory tree for Terraform files, collect the module  *)
(* and provider declarations, ask the registry for the latest version of   *)
(* each and print a current-vs-latest report (src/tfridge.go).             *)
(*                                                                         *)
(* Strings are sequences of one-character strings, so that prefix tests,   *)
(* splitting, version parsing and version formatting are computed and not  *)
(* assumed.                                                                *)
(***************************************************************************)
EXTENDS Integers, Sequences, FiniteSets, TLC

(***************************************************************************)
(* Bounds of the model.                                                    *)
(***************************************************************************)
MaxVersions == 3      \* longest versions list a registry answer carries
MaxIdLen == 4         \* longest provider identifier drawn for the normaliser
MaxLines == 4         \* longest file drawn for the extractor
MaxFaults == 1        \* most filesystem entries that fail with an I/O error

(***************************************************************************)
(* Characters and strings.                                                 *)
(***************************************************************************)
Digits == <<"0", "1", "2", "3", "4", "5", "6", "7", "8", "9">>
Lower == <<"a", "b", "c", "d", "e", "f", "g", "h", "i", "j", "k", "l", "m",
           "n", "o", "p", "q", "r", "s", "t", "u", "v", "w", "x", "y", "z">>
Upper == <<"A", "B", "C", "D", "E", "F", "G", "H", "I", "J", "K", "L", "M",
           "N", "O", "P", "Q", "R", "S", "T", "U", "V", "W", "X", "Y", "Z">>

Range(s) == {s[i] : i \in 1..Len(s)}

IndexIn(s, c) == CHOOSE i \in 1..Len(s) : s[i] = c

IsDigit(c) == c \in Range(Digits)

IsAlpha(c) == c \in Range(Lower) \cup Range(Upper)

\* The byte value of a character (ASCII), the order Go compares strings by.
Code(c) ==
    IF IsDigit(c) THEN 47 + IndexIn(Digits, c)
    ELSE IF c \in Range(Lower) THEN 96 + IndexIn(Lower, c)
    ELSE IF c \in Range(Upper) THEN 64 + IndexIn(Upper, c)
    ELSE IF c = "+" THEN 43
    ELSE IF c = "-" THEN 45
    ELSE IF c = "." THEN 46
    ELSE IF c = "/" THEN 47
    ELSE 95

Drop(s, n) == SubSeq(s, n + 1, Len(s))

Take(s, n) == SubSeq(s, 1, n)

\* strings.HasPrefix
HasPrefix(s, p) == Len(s) >= Len(p) /\ Take(s, Len(p)) = p

\* Go's s < o on strings: bytewise lexicographic order.
RECURSIVE StrLess(_, _)
StrLess(s, o) ==
    IF o = <<>> THEN FALSE
    ELSE IF s = <<>> THEN TRUE
    ELSE IF s[1] # o[1] THEN Code(s[1]) < Code(o[1])
    ELSE StrLess(Tail(s), Tail(o))

\* strings.Split(s, sep) for a one-character separator.
RECURSIVE SplitFrom(_, _, _)
SplitFrom(s, sep, acc) ==
    IF s = <<>> THEN <<acc>>
    ELSE IF s[1] = sep THEN <<acc>> \o SplitFrom(Tail(s), sep, <<>>)
    ELSE SplitFrom(Tail(s), sep, Append(acc, s[1]))

Split(s, sep) == SplitFrom(s, sep, <<>>)

\* strings.Split(s, "//")[0]: the part before the first "//".
RECURSIVE BeforeDoubleSlash(_)
BeforeDoubleSlash(s) ==
    IF s = <<>> THEN <<>>
    ELSE IF HasPrefix(s, <<"/", "/">>) THEN <<>>
    ELSE <<s[1]>> \o BeforeDoubleSlash(Tail(s))

\* strconv.ParseUint on a string of digits.
RECURSIVE ParseUint(_)
ParseUint(s) ==
    IF s = <<>> THEN 0
    ELSE 10 * ParseUint(Take(s, Len(s) - 1)) + (Code(s[Len(s)]) - 48)

\* The %d verb of fmt.
RECURSIVE Itoa(_)
Itoa(n) == IF n < 10 THEN <<Digits[n + 1]>> ELSE Itoa(n \div 10) \o <<Digits[(n % 10) + 1]>>

RECURSIVE DigitsPrefixLen(_)
DigitsPrefixLen(s) ==
    IF s # <<>> /\ IsDigit(s[1]) THEN 1 + DigitsPrefixLen(Tail(s)) ELSE 0

AllDigits(s) == \A i \in 1..Len(s) : IsDigit(s[i])

(***************************************************************************)
(* github.com/Masterminds/semver/v3 as used by the two lookups:            *)
(* NewVersion, GreaterThan and String.                                     *)
(***************************************************************************)
\* a character of a pre-release or metadata identifier: [0-9A-Za-z-]
IsIdentChar(c) == IsDigit(c) \/ IsAlpha(c) \/ c = "-"

\* [0-9A-Za-z\-]+(\.[0-9A-Za-z\-]+)*
IsIdentList(s) ==
    /\ s # <<>>
    /\ \A i \in 1..Len(s) : IsIdentChar(s[i]) \/ s[i] = "."
    /\ \A i \in 1..Len(Split(s, ".")) : Split(s, ".")[i] # <<>>

\* validatePrerelease: a numeric identifier must not start with a zero
PrereleaseOk(pre) ==
    \A i \in 1..Len(Split(pre, ".")) :
        LET p == Split(pre, ".")[i]
        IN  AllDigits(p) => ~(Len(p) > 1 /\ p[1] = "0")

InvalidVersion == [ok |-> FALSE, major |-> 0, minor |-> 0, patch |-> 0, pre |-> <<>>, metadata |-> <<>>]

\* an optional "." digits+ group of the version pattern: <<value, rest>>
DotNumber(s) ==
    IF Len(s) >= 2 /\ s[1] = "." /\ IsDigit(s[2])
    THEN LET n == DigitsPrefixLen(Tail(s))
         IN  <<ParseUint(SubSeq(s, 2, n + 1)), Drop(s, n + 1)>>
    ELSE <<0, s>>

\* the part of s before the first "+", and the part from it on
RECURSIVE BeforePlus(_)
BeforePlus(s) ==
    IF s = <<>> \/ s[1] = "+" THEN <<>> ELSE <<s[1]>> \o BeforePlus(Tail(s))

\* semver.NewVersion: v?N(.N)?(.N)?(-pre)?(+metadata)? anchored at both ends
NewVersion(str) ==
    LET s0 == IF str # <<>> /\ str[1] = "v" THEN Tail(str) ELSE str
        n1 == DigitsPrefixLen(s0)
        major == ParseUint(Take(s0, n1))
        s1 == Drop(s0, n1)
        g2 == DotNumber(s1)
        g3 == DotNumber(g2[2])
        s3 == g3[2]
        hasPre == s3 # <<>> /\ s3[1] = "-"
        pre == IF hasPre THEN BeforePlus(Tail(s3)) ELSE <<>>
        s4 == IF hasPre THEN Drop(s3, 1 + Len(pre)) ELSE s3
        hasMeta == s4 # <<>> /\ s4[1] = "+"
        metadata == IF hasMeta THEN Tail(s4) ELSE <<>>
    IN  IF /\ n1 > 0
           /\ (hasPre => IsIdentList(pre) /\ PrereleaseOk(pre))
           /\ (hasMeta => IsIdentList(metadata))
           /\ (~hasMeta => s4 = <<>>)
        THEN [ok |-> TRUE, major |-> major, minor |-> g2[1], patch |-> g3[1],
              pre |-> pre, metadata |-> metadata]
        ELSE InvalidVersion

\* comparePrePart
ComparePrePart(s, o) ==
    IF s = o THEN 0
    ELSE IF s = <<>> THEN -1
    ELSE IF o = <<>> THEN 1
    ELSE IF ~AllDigits(o) /\ ~AllDigits(s) THEN (IF StrLess(o, s) THEN 1 ELSE -1)
    ELSE IF ~AllDigits(o) THEN -1
    ELSE IF ~AllDigits(s) THEN 1
    ELSE IF ParseUint(s) > ParseUint(o) THEN 1 ELSE -1

\* comparePrerelease on the dot-separated identifiers
RECURSIVE ComparePreParts(_, _)
ComparePreParts(sp, op) ==
    IF sp = <<>> /\ op = <<>> THEN 0
    ELSE LET a == IF sp = <<>> THEN <<>> ELSE sp[1]
             b == IF op = <<>> THEN <<>> ELSE op[1]
             d == ComparePrePart(a, b)
         IN  IF d # 0 THEN d
             ELSE ComparePreParts(IF sp = <<>> THEN <<>> ELSE Tail(sp),
                                  IF op = <<>> THEN <<>> ELSE Tail(op))

\* Version.Compare: major, minor, patch, then the pre-release
Compare(v, o) ==
    IF v.major # o.major THEN (IF v.major > o.major THEN 1 ELSE -1)
    ELSE IF v.minor # o.minor THEN (IF v.minor > o.minor THEN 1 ELSE -1)
    ELSE IF v.patch # o.patch THEN (IF v.patch > o.patch THEN 1 ELSE -1)
    ELSE IF v.pre = <<>> /\ o.pre = <<>> THEN 0
    ELSE IF v.pre = <<>> THEN 1
    ELSE IF o.pre = <<>> THEN -1
    ELSE ComparePreParts(Split(v.pre, "."), Split(o.pre, "."))

GreaterThan(v, o) == Compare(v, o) = 1

LessThan(v, o) == Compare(v, o) = -1

\* Version.String
String(v) ==
    Itoa(v.major) \o <<".">> \o Itoa(v.minor) \o <<".">> \o Itoa(v.patch)
      \o (IF v.pre # <<>> THEN <<"-">> \o v.pre ELSE <<>>)
      \o (IF v.metadata # <<>> THEN <<"+">> \o v.metadata ELSE <<>>)

(***************************************************************************)
(* Registry answers and the two lookups.                                   *)
(***************************************************************************)
NotFound == <<"N", "o", "t", " ", "f", "o", "u", "n", "d">>

Hashicorp == <<"h", "a", "s", "h", "i", "c", "o", "r", "p", "/">>

NoRequest == [endpoint |-> "none", id |-> <<>>]

\* what http.Get and the JSON decoder can produce for one request
NetErr == [neterr |-> TRUE, status |-> 0, decodable |-> FALSE, versions |-> <<>>]

Http(code) == [neterr |-> FALSE, status |-> code, decodable |-> FALSE, versions |-> <<>>]

BadBody == [neterr |-> FALSE, status |-> 200, decodable |-> FALSE, versions |-> <<>>]

Ok(list) == [neterr |-> FALSE, status |-> 200, decodable |-> TRUE, versions |-> list]

Failed(req, kind, code) ==
    [outcome |-> "error", val |-> <<>>, err |-> [kind |-> kind, code |-> code], request |-> req]

Returned(req, val) ==
    [outcome |-> "ok", val |-> val, err |-> [kind |-> "nil", code |-> 0], request |-> req]

\* an index expression on an empty slice: the runtime panics
Panicked(req) ==
    [outcome |-> "panic", val |-> <<>>, err |-> [kind |-> "nil", code |-> 0], request |-> req]

\* the loop that keeps the strings semver.NewVersion accepts
RECURSIVE ValidVersions(_)
ValidVersions(list) ==
    IF list = <<>> THEN <<>>
    ELSE (IF NewVersion(list[1]).ok THEN <<NewVersion(list[1])>> ELSE <<>>)
           \o ValidVersions(Tail(list))

\* the less function handed to sort.Slice
\* the comparison the other way round: ascending order
VersionLessReversed(a, b) == LessThan(a, b)

VersionLess(a, b) == GreaterThan(a, b)

\* sort.Slice on a slice of at most 12 elements is an insertion sort
RECURSIVE InsertSorted(_, _)
InsertSorted(s, x) ==
    IF s = <<>> \/ ~VersionLess(x, s[Len(s)]) THEN Append(s, x)
    ELSE Append(InsertSorted(Take(s, Len(s) - 1), x), s[Len(s)])

RECURSIVE SortSlice(_)
SortSlice(s) ==
    IF s = <<>> THEN <<>> ELSE InsertSorted(SortSlice(Take(s, Len(s) - 1)), s[Len(s)])

\* the part the two lookups share: status, decoding, filtering, sorting
LatestOf(req, resp) ==
    IF resp.neterr THEN Failed(req, "transport", 0)
    ELSE IF resp.status # 200 THEN Failed(req, "status", resp.status)
    ELSE IF ~resp.decodable THEN Failed(req, "decode", 0)
    ELSE IF Len(resp.versions) = 0 THEN Returned(req, NotFound)
    ELSE LET validVersions == SortSlice(ValidVersions(resp.versions))
         IN  IF validVersions = <<>> THEN Panicked(req)
             ELSE Returned(req, String(validVersions[1]))

getLatestVersion(moduleSource, resp) ==
    LatestOf([endpoint |-> "modules", id |-> BeforeDoubleSlash(moduleSource)], resp)

\* a check that prepends the default namespace whenever the shape is accepted
NormalizeAlwaysPrefix(providerSource) ==
    IF Len(Split(providerSource, "/")) <= 2
    THEN [ok |-> TRUE, id |-> Hashicorp \o providerSource]
    ELSE [ok |-> FALSE, id |-> providerSource]

\* the namespace check at the head of getLatestProviderVersion
NormalizeProvider(providerSource) ==
    LET parts == Split(providerSource, "/")
    IN  IF Len(parts) = 2 THEN [ok |-> TRUE, id |-> providerSource]
        ELSE IF Len(parts) = 1 THEN [ok |-> TRUE, id |-> Hashicorp \o providerSource]
        ELSE [ok |-> FALSE, id |-> providerSource]

getLatestProviderVersion(providerSource, resp) ==
    LET n == NormalizeProvider(providerSource)
    IN  IF ~n.ok THEN Failed(NoRequest, "format", 0)
        ELSE LatestOf([endpoint |-> "providers", id |-> n.id], resp)

(***************************************************************************)
(* The map writes of extractModules.                                       *)
(***************************************************************************)
\* a write that keeps the value of a key already present
MapSetIfAbsent(m, k, v) ==
    [x \in DOMAIN m \cup {k} |-> IF x \in DOMAIN m THEN m[x] ELSE v]

\* m[k] = v on a Go map
MapSet(m, k, v) ==
    [x \in DOMAIN m \cup {k} |-> IF x = k THEN v ELSE m[x]]

EmptyMap == [x \in {} |-> <<>>]

(***************************************************************************)
(* A line of a file, as the extractor sees it: whether moduleRegex         *)
(* matches, the capture of sourceRegex, versionRegex and providerRegex     *)
(* (empty when the pattern does not match; a capture is never empty), and  *)
(* whether the line is exactly "}".                                        *)
(***************************************************************************)
Line(mod, src, ver, prov, close) ==
    [mod |-> mod, src |-> src, ver |-> ver, prov |-> prov, close |-> close]

SrcA == <<"o", "/", "m", "/", "p">>
SrcASub == <<"o", "/", "m", "/", "p", "/", "/", "s">>
SrcHidden == <<"h", "/", "m", "/", "p">>
ProvAws == <<"a", "w", "s">>
ProvOrg == <<"o", "/", "x">>
ProvDeep == <<"a", "/", "b", "/", "c">>
ProvHidden == <<"h", "i", "d">>
Ver1 == <<"1", ".", "0">>
Ver2 == <<"2", ".", "0">>

LOpen == Line(TRUE, <<>>, <<>>, <<>>, FALSE)
LOpenSrc == Line(TRUE, SrcASub, <<>>, <<>>, FALSE)
LSrcA == Line(FALSE, SrcA, <<>>, <<>>, FALSE)
LSrcASub == Line(FALSE, SrcASub, <<>>, <<>>, FALSE)
LSrcHidden == Line(FALSE, SrcHidden, <<>>, <<>>, FALSE)
LVer1 == Line(FALSE, <<>>, Ver1, <<>>, FALSE)
LVer2 == Line(FALSE, <<>>, Ver2, <<>>, FALSE)
LSrcVer == Line(FALSE, SrcA, Ver2, <<>>, FALSE)
LClose == Line(FALSE, <<>>, <<>>, <<>>, TRUE)
LBlank == Line(FALSE, <<>>, <<>>, <<>>, FALSE)
LProvAws == Line(FALSE, <<>>, <<>>, ProvAws, FALSE)
LProvAwsVer == Line(FALSE, <<>>, Ver1, ProvAws, FALSE)
LProvOrg == Line(FALSE, <<>>, Ver2, ProvOrg, FALSE)
LProvDeep == Line(FALSE, <<>>, <<>>, ProvDeep, FALSE)
LProvHidden == Line(FALSE, <<>>, <<>>, ProvHidden, FALSE)

\* the lines a drawn file is made of
LineKinds == {LOpen, LOpenSrc, LSrcA, LSrcASub, LVer1, LSrcVer, LClose, LBlank, LProvAws, LProvAwsVer}

(***************************************************************************)
(* The directory tree the runs scan.                                       *)
(*   proj/                                                                 *)
(*     .terraform/  mod.tf  modules/ deep.tf                               *)
(*     README.md                                                           *)
(*     main.tf                                                             *)
(*     net/  vpc.tf                                                        *)
(***************************************************************************)
Nodes == 1..9

NoNode == 0

FsName ==
    <<<<"p", "r", "o", "j">>, <<"m", "a", "i", "n", ".", "t", "f">>, <<".", "t", "e", "r", "r", "a", "f", "o", "r", "m">>, <<"m", "o", "d", ".", "t", "f">>, <<"m", "o", "d", "u", "l", "e", "s">>,
      <<"d", "e", "e", "p", ".", "t", "f">>, <<"n", "e", "t">>, <<"v", "p", "c", ".", "t", "f">>, <<"R", "E", "A", "D", "M", "E", ".", "m", "d">>>>

FsParent == <<0, 1, 1, 3, 3, 5, 1, 7, 1>>

FsIsDir == <<TRUE, FALSE, TRUE, FALSE, TRUE, FALSE, TRUE, FALSE, FALSE>>

FsLines ==
    <<<<>>,
      <<LOpen, LSrcA, LVer1, LClose, LProvAwsVer>>,
      <<>>,
      <<LOpen, LSrcHidden, LClose>>,
      <<>>,
      <<LProvHidden>>,
      <<>>,
      <<LOpen, LVer2, LSrcA, LClose, LOpen, LVer1, LClose, LOpen, LSrcASub, LClose, LProvDeep, LProvAws>>,
      <<LProvOrg>>>>

Dot == <<".">>

DotTf == <<".", "t", "f">>

\* filepath.Ext: the suffix of the last path element from its last dot on
RECURSIVE Ext(_)
Ext(name) ==
    IF name = <<>> THEN <<>>
    ELSE IF name[Len(name)] = "." THEN <<".">>
    ELSE LET e == Ext(Take(name, Len(name) - 1))
         IN  IF e = <<>> THEN <<>> ELSE Append(e, name[Len(name)])

\* readDirNames: the names of a directory's entries, sorted
RECURSIVE SortedByName(_)
SortedByName(S) ==
    IF S = {} THEN <<>>
    ELSE LET first == CHOOSE n \in S : \A o \in S \ {n} : StrLess(FsName[n], FsName[o])
         IN  <<first>> \o SortedByName(S \ {first})

readDirNames(n) == SortedByName({c \in Nodes : FsParent[c] = n})

Entry(n) == [node |-> n, name |-> FsName[n]]

RECURSIVE Entries(_)
Entries(ns) == IF ns = <<>> THEN <<>> ELSE <<Entry(ns[1])>> \o Entries(Tail(ns))

(***************************************************************************)
(* State.                                                                  *)
(***************************************************************************)
VARIABLES
    pc,           \* where the process is: "cli", "walk", "scan", "modules",
                  \* "providers", "done" (main returned), "exit1" (os.Exit(1)),
                  \* "panic" (runtime panic); "call"/"ret" for a lone lookup
    argv,         \* the command line
    fault,        \* the I/O error each filesystem entry answers with
    rootPath,     \* the variable createNewCliApp returns
    walked,       \* filepath.Walk was called
    stack,        \* entries filepath.Walk still has to visit, next first
    extracted,    \* the files handed to extractModules so far
    lines,        \* the lines the scanner of the open file delivers
    scanErr,      \* whether that scanner ends with an error
    pos,          \* the next line of the scanner
    inBlock,      \* the scanner is in the inner loop of a module block
    blockStart,   \* the line that opened the block
    source,       \* local of the module branch
    version,      \* local of the module branch
    moduleMap,
    providerMap,
    declLog,      \* every map write so far, in order
    modTodo,      \* keys the first range loop has not delivered yet
    provTodo,     \* keys the second range loop has not delivered yet
    requests,     \* the registry requests issued so far
    lookups,      \* the calls of the two lookups so far
    out,          \* what was printed so far
    call,         \* a lone lookup: its arguments
    ret           \* a lone lookup: its result

vars == <<pc, argv, fault, rootPath, walked, stack, extracted, lines, scanErr, pos,
          inBlock, blockStart, source, version, moduleMap, providerMap, declLog,
          modTodo, provTodo, requests, lookups, out, call, ret>>

scanVars == <<lines, scanErr, pos, inBlock, blockStart, source, version>>

mapVars == <<moduleMap, providerMap, declLog>>

reportVars == <<modTodo, provTodo, requests, lookups, out>>

Unset == [node |-> NoNode, base |-> <<>>]

NoCall == [fn |-> "none", id |-> <<>>, resp |-> NetErr]

NoRet == [outcome |-> "none", val |-> <<>>, err |-> [kind |-> "nil", code |-> 0], request |-> NoRequest]

Printed(kind, src, cur, latest) == [kind |-> kind, source |-> src, current |-> cur, latest |-> latest]

(***************************************************************************)
(* Command lines and filesystem faults.                                    *)
(***************************************************************************)
Nope == <<"n", "o", "p", "e">>

Arg(kind, node, base) == [kind |-> kind, node |-> node, base |-> base]

\* a path names an entry by its own name, or a directory as "." from inside it
Args ==
    {Arg("none", NoNode, <<>>), Arg("version", NoNode, <<>>), Arg("help", NoNode, <<>>),
     Arg("badflag", NoNode, <<>>), Arg("path", NoNode, Nope)}
      \cup {Arg("path", n, FsName[n]) : n \in Nodes}
      \cup {Arg("path", n, Dot) : n \in {m \in Nodes : FsIsDir[m]}}

FaultKinds(n) == IF FsIsDir[n] THEN {"none", "lstat", "readdir"} ELSE {"none", "lstat", "open", "read"}

NoFault == [n \in Nodes |-> "none"]

\* the fault assignments with at most k failing entries
RECURSIVE FaultsUpTo(_)
FaultsUpTo(k) ==
    IF k = 0 THEN {NoFault}
    ELSE LET F == FaultsUpTo(k - 1)
         IN  F \cup {[f EXCEPT ![n] = kind] : f \in F, n \in Nodes, kind \in {"lstat", "readdir", "open", "read"}}

Faults == {f \in FaultsUpTo(MaxFaults) : \A n \in Nodes : f[n] \in FaultKinds(n)}

pathExists(path) == path.node # NoNode /\ fault[path.node] # "lstat"

(***************************************************************************)
(* Initial state of a run of the program.                                  *)
(***************************************************************************)
ScanIdle ==
    /\ lines = <<>>
    /\ scanErr = FALSE
    /\ pos = 1
    /\ inBlock = FALSE
    /\ blockStart = 0
    /\ source = <<>>
    /\ version = <<>>

ReportIdle ==
    /\ modTodo = {}
    /\ provTodo = {}
    /\ requests = <<>>
    /\ lookups = <<>>
    /\ out = <<>>

CallIdle ==
    /\ call = NoCall
    /\ ret = NoRet

Init ==
    /\ pc = "cli"
    /\ argv \in Args
    /\ fault \in Faults
    /\ rootPath = Unset
    /\ walked = FALSE
    /\ stack = <<>>
    /\ extracted = {}
    /\ ScanIdle
    /\ moduleMap = EmptyMap
    /\ providerMap = EmptyMap
    /\ declLog = <<>>
    /\ ReportIdle
    /\ CallIdle

(***************************************************************************)
(* createNewCliApp and the call of filepath.Walk.                          *)
(***************************************************************************)
\* app.Run returns nil without running Action when a version or help flag is
\* given; a cli.Exit error from Action ends the process inside app.Run, and
\* any other error ends it in log.Fatal.
CliRun ==
    /\ pc = "cli"
    /\ CASE argv.kind \in {"version", "help"} ->
              /\ out' = Append(out, Printed(argv.kind, <<>>, <<>>, <<>>))
              /\ rootPath' = Unset
              /\ pc' = "walk"
              /\ walked' = TRUE
              /\ stack' = <<[node |-> NoNode, name |-> <<>>]>>
         [] argv.kind = "badflag" ->
              /\ out' = Append(out, Printed("fatal", <<>>, <<>>, <<>>))
              /\ pc' = "exit1"
              /\ UNCHANGED <<rootPath, walked, stack>>
         [] argv.kind = "none" ->
              /\ out' = Append(out, Printed("usage", <<>>, <<>>, <<>>))
              /\ pc' = "exit1"
              /\ UNCHANGED <<rootPath, walked, stack>>
         [] argv.kind = "path" ->
              /\ rootPath' = [node |-> argv.node, base |-> argv.base]
              /\ IF ~pathExists(rootPath')
                 THEN /\ out' = Append(out, Printed("nopath", argv.base, <<>>, <<>>))
                      /\ pc' = "exit1"
                      /\ UNCHANGED <<walked, stack>>
                 ELSE /\ out' = Append(out, Printed("scanning", argv.base, <<>>, <<>>))
                      /\ pc' = "walk"
                      /\ walked' = TRUE
                      /\ stack' = <<[node |-> argv.node, name |-> argv.base]>>
    /\ UNCHANGED <<argv, fault, extracted, scanVars, mapVars, modTodo, provTodo, requests, lookups, call, ret>>

(***************************************************************************)
(* filepath.Walk with the callback of main.                                *)
(***************************************************************************)
\* the callback returned an error: Walk returns it, main prints it and returns
\* an error that is printed without main returning
AbortContinues ==
    /\ pc' = "modules"
    /\ out' = Append(out, Printed("walkerror", <<>>, <<>>, <<>>))
    /\ modTodo' = DOMAIN moduleMap
    /\ stack' = <<>>

Abort ==
    /\ pc' = "done"
    /\ out' = Append(out, Printed("walkerror", <<>>, <<>>, <<>>))
    /\ modTodo' = modTodo
    /\ stack' = <<>>

\* a callback that skips no directory
HiddenNever(name) == FALSE

\* strings.HasPrefix(info.Name(), ".")
Hidden(name) == HasPrefix(name, Dot)

\* one entry of the walk: Lstat, readDirNames for a directory, the callback
WalkEntry ==
    /\ pc = "walk"
    /\ stack # <<>>
    /\ LET e == Head(stack)
           n == e.node
       IN  IF n = NoNode \/ fault[n] = "lstat"
           THEN Abort /\ UNCHANGED <<extracted, scanVars>>
           ELSE IF FsIsDir[n]
           THEN IF fault[n] = "readdir"
                THEN Abort /\ UNCHANGED <<extracted, scanVars>>
                ELSE /\ stack' = IF Hidden(e.name) THEN Tail(stack)
                                 ELSE Entries(readDirNames(n)) \o Tail(stack)
                     /\ UNCHANGED <<pc, out, modTodo, extracted, scanVars>>
           ELSE IF Ext(e.name) = DotTf
           THEN IF fault[n] = "open"
                THEN Abort /\ extracted' = extracted \cup {n} /\ UNCHANGED scanVars
                ELSE /\ extracted' = extracted \cup {n}
                     /\ pc' = "scan"
                     /\ stack' = Tail(stack)
                     /\ IF fault[n] = "read"
                        THEN \E k \in 0..Len(FsLines[n]) :
                                 lines' = Take(FsLines[n], k) /\ scanErr' = TRUE
                        ELSE lines' = FsLines[n] /\ scanErr' = FALSE
                     /\ pos' = 1
                     /\ inBlock' = FALSE
                     /\ blockStart' = 0
                     /\ source' = <<>>
                     /\ version' = <<>>
                     /\ UNCHANGED <<out, modTodo>>
           ELSE /\ stack' = Tail(stack)
                /\ UNCHANGED <<pc, out, modTodo, extracted, scanVars>>
    /\ UNCHANGED <<argv, fault, rootPath, walked, mapVars, provTodo, requests, lookups, call, ret>>

\* Walk returned nil: main enters the first range loop
WalkReturn ==
    /\ pc = "walk"
    /\ stack = <<>>
    /\ pc' = "modules"
    /\ modTodo' = DOMAIN moduleMap
    /\ UNCHANGED <<argv, fault, rootPath, walked, stack, extracted, scanVars, mapVars,
                   provTodo, requests, lookups, out, call, ret>>

(***************************************************************************)
(* extractModules, one scanner line per step.                              *)
(***************************************************************************)
Decl(tag, src, ver) == [tag |-> tag, source |-> src, version |-> ver]

\* the outer loop reads a line outside a module block
ScanOuter ==
    /\ pc = "scan"
    /\ ~inBlock
    /\ pos <= Len(lines)
    /\ LET line == lines[pos]
       IN  IF line.mod
           THEN /\ inBlock' = TRUE
                /\ blockStart' = pos
                /\ source' = <<>>
                /\ version' = <<>>
                /\ UNCHANGED mapVars
           ELSE IF line.prov # <<>>
           THEN /\ providerMap' = MapSet(providerMap, line.prov, line.ver)
                /\ declLog' = Append(declLog, Decl("provider", line.prov, line.ver))
                /\ UNCHANGED <<moduleMap, inBlock, blockStart, source, version>>
           ELSE UNCHANGED <<mapVars, inBlock, blockStart, source, version>>
    /\ pos' = pos + 1
    /\ UNCHANGED <<pc, argv, fault, rootPath, walked, stack, extracted, lines, scanErr,
                   reportVars, call, ret>>

\* a block end that writes without looking at source
EndBlockAlways(src, ver) ==
    /\ moduleMap' = MapSet(moduleMap, src, ver)
    /\ declLog' = Append(declLog, Decl("module", src, ver))
    /\ UNCHANGED providerMap

\* after the inner loop: if source != "" { moduleMap[source] = version }
EndBlock(src, ver) ==
    IF src # <<>>
    THEN /\ moduleMap' = MapSet(moduleMap, src, ver)
         /\ declLog' = Append(declLog, Decl("module", src, ver))
         /\ UNCHANGED providerMap
    ELSE UNCHANGED mapVars

\* the inner loop reads a line of a module block, or finds the scanner at its end
ScanInner ==
    /\ pc = "scan"
    /\ inBlock
    /\ IF pos > Len(lines)
       THEN /\ EndBlock(source, version)
            /\ inBlock' = FALSE
            /\ UNCHANGED <<pos, source, version>>
       ELSE LET line == lines[pos]
                src == IF line.src # <<>> THEN line.src ELSE source
                ver == IF line.ver # <<>> THEN line.ver ELSE version
            IN  /\ pos' = pos + 1
                /\ source' = src
                /\ version' = ver
                /\ IF line.close
                   THEN EndBlock(src, ver) /\ inBlock' = FALSE
                   ELSE UNCHANGED <<mapVars, inBlock>>
    /\ UNCHANGED <<pc, argv, fault, rootPath, walked, stack, extracted, lines, scanErr,
                   blockStart, reportVars, call, ret>>

\* the outer loop finds the scanner at its end: scanner.Err() decides
ExtractReturn ==
    /\ pc = "scan"
    /\ ~inBlock
    /\ pos > Len(lines)
    /\ IF scanErr THEN Abort ELSE UNCHANGED <<stack, out, modTodo>> /\ pc' = "walk"
    /\ UNCHANGED <<argv, fault, rootPath, walked, extracted, scanVars, mapVars,
                   provTodo, requests, lookups, call, ret>>

(***************************************************************************)
(* The two range loops of main.                                            *)
(***************************************************************************)
\* the answers the registry gives during a run
V100 == <<"1", ".", "0", ".", "0">>
V210 == <<"2", ".", "1", ".", "0">>
V199 == <<"1", ".", "9", ".", "9">>
Latest == <<"l", "a", "t", "e", "s", "t">>

RunResponses == {NetErr, Http(404), BadBody, Ok(<<>>), Ok(<<V100, V210, V199>>), Ok(<<Latest>>)}

\* what one iteration prints for the result r of its lookup
Report(tag, src, cur, r) ==
    IF r.outcome = "error" THEN Printed(tag \o "error", src, <<>>, <<>>)
    ELSE Printed(tag, src, cur, IF r.val = <<>> THEN NotFound ELSE r.val)

\* one iteration of: for source, currentVersion := range moduleMap
ReportModule ==
    /\ pc = "modules"
    /\ \E src \in modTodo, resp \in RunResponses :
         LET r == getLatestVersion(src, resp)
         IN  /\ modTodo' = modTodo \ {src}
             /\ lookups' = Append(lookups, [tag |-> "module", source |-> src])
             /\ requests' = IF r.request = NoRequest THEN requests ELSE Append(requests, r.request)
             /\ IF r.outcome = "panic"
                THEN pc' = "panic" /\ out' = out
                ELSE pc' = pc /\ out' = Append(out, Report("module", src, moduleMap[src], r))
    /\ UNCHANGED <<argv, fault, rootPath, walked, stack, extracted, scanVars, mapVars,
                   provTodo, call, ret>>

\* the first loop is over: the second starts
ModulesDone ==
    /\ pc = "modules"
    /\ modTodo = {}
    /\ pc' = "providers"
    /\ provTodo' = DOMAIN providerMap
    /\ UNCHANGED <<argv, fault, rootPath, walked, stack, extracted, scanVars, mapVars,
                   modTodo, requests, lookups, out, call, ret>>

\* one iteration of: for source, currentVersion := range providerMap
ReportProvider ==
    /\ pc = "providers"
    /\ \E src \in provTodo, resp \in RunResponses :
         LET r == getLatestProviderVersion(src, resp)
         IN  /\ provTodo' = provTodo \ {src}
             /\ lookups' = Append(lookups, [tag |-> "provider", source |-> src])
             /\ requests' = IF r.request = NoRequest THEN requests ELSE Append(requests, r.request)
             /\ IF r.outcome = "panic"
                THEN pc' = "panic" /\ out' = out
                ELSE pc' = pc /\ out' = Append(out, Report("provider", src, providerMap[src], r))
    /\ UNCHANGED <<argv, fault, rootPath, walked, stack, extracted, scanVars, mapVars,
                   modTodo, call, ret>>

\* the second loop is over: main returns
ProvidersDone ==
    /\ pc = "providers"
    /\ provTodo = {}
    /\ pc' = "done"
    /\ UNCHANGED <<argv, fault, rootPath, walked, stack, extracted, scanVars, mapVars,
                   reportVars, call, ret>>

Next ==
    \/ CliRun
    \/ WalkEntry
    \/ WalkReturn
    \/ ScanOuter
    \/ ScanInner
    \/ ExtractReturn
    \/ ReportModule
    \/ ModulesDone
    \/ ReportProvider
    \/ ProvidersDone

Spec == Init /\ [][Next]_vars

(***************************************************************************)
(* A lone call of one of the two lookups, on a drawn identifier and a      *)
(* drawn registry answer.                                                  *)
(***************************************************************************)
V12 == <<"v", "1", ".", "2">>
V100Alpha == <<"1", ".", "0", ".", "0", "-", "a">>
V100Rc2 == <<"1", ".", "0", ".", "0", "-", "r", "c", ".", "2">>
V100Rc10 == <<"1", ".", "0", ".", "0", "-", "r", "c", ".", "1", "0">>
V100Build == <<"1", ".", "0", ".", "0", "+", "b">>
V10 == <<"1", "0">>
V1234 == <<"1", ".", "2", ".", "3", ".", "4">>
V100Rc01 == <<"1", ".", "0", ".", "0", "-", "0", "1">>

VersionStrings == {V100, V210, V199, V12, V100Alpha, V100Rc2, V100Rc10, V100Build, V10, Latest, V1234, V100Rc01}

VersionLists == UNION {[1..n -> VersionStrings] : n \in 0..MaxVersions}

IdChars == {"a", "/"}

ProviderIds == UNION {[1..n -> IdChars] : n \in 1..MaxIdLen}

ModuleIds == {SrcA, SrcASub}

InitLatest ==
    /\ pc = "call"
    /\ \/ call \in [fn : {"getLatestVersion"}, id : ModuleIds,
                    resp : {NetErr, Http(404), BadBody} \cup {Ok(l) : l \in VersionLists}]
       \/ call \in [fn : {"getLatestProviderVersion"}, id : {ProvAws, ProvOrg, ProvDeep},
                    resp : {NetErr, Http(404), BadBody} \cup {Ok(l) : l \in VersionLists}]
       \/ call \in [fn : {"getLatestProviderVersion"}, id : ProviderIds,
                    resp : {NetErr, Http(500), BadBody, Ok(<<>>), Ok(<<V100, V210, V199>>)}]
    /\ ret = NoRet
    /\ argv = Arg("none", NoNode, <<>>)
    /\ fault = NoFault
    /\ rootPath = Unset
    /\ walked = FALSE
    /\ stack = <<>>
    /\ extracted = {}
    /\ ScanIdle
    /\ moduleMap = EmptyMap
    /\ providerMap = EmptyMap
    /\ declLog = <<>>
    /\ ReportIdle

idleVars == <<argv, fault, rootPath, walked, stack, extracted, scanVars, mapVars, reportVars>>

CallGetLatestVersion ==
    /\ pc = "call"
    /\ call.fn = "getLatestVersion"
    /\ ret' = getLatestVersion(call.id, call.resp)
    /\ pc' = "ret"
    /\ UNCHANGED <<call, idleVars>>

CallGetLatestProviderVersion ==
    /\ pc = "call"
    /\ call.fn = "getLatestProviderVersion"
    /\ ret' = getLatestProviderVersion(call.id, call.resp)
    /\ pc' = "ret"
    /\ UNCHANGED <<call, idleVars>>

NextLatest == CallGetLatestVersion \/ CallGetLatestProviderVersion

SpecLatest == InitLatest /\ [][NextLatest]_vars

(***************************************************************************)
(* A lone call of extractModules on a drawn file, with maps that earlier   *)
(* files may have filled.                                                  *)
(***************************************************************************)
Files == UNION {[1..n -> LineKinds] : n \in 0..MaxLines}

InitExtract ==
    /\ pc = "scan"
    /\ lines \in Files
    /\ scanErr \in BOOLEAN
    /\ pos = 1
    /\ inBlock = FALSE
    /\ blockStart = 0
    /\ source = <<>>
    /\ version = <<>>
    /\ \/ moduleMap = EmptyMap /\ providerMap = EmptyMap /\ declLog = <<>>
       \/ /\ moduleMap = MapSet(EmptyMap, SrcA, Ver1)
          /\ providerMap = MapSet(EmptyMap, ProvAws, <<>>)
          /\ declLog = <<Decl("module", SrcA, Ver1), Decl("provider", ProvAws, <<>>)>>
    /\ argv = Arg("path", 2, FsName[2])
    /\ fault = NoFault
    /\ rootPath = [node |-> 2, base |-> FsName[2]]
    /\ walked = TRUE
    /\ stack = <<>>
    /\ extracted = {2}
    /\ ReportIdle
    /\ CallIdle

NextExtract == ScanOuter \/ ScanInner \/ ExtractReturn

SpecExtract == InitExtract /\ [][NextExtract]_vars

(***************************************************************************)
(* Properties.                                                             *)
(***************************************************************************)
Max(S) == CHOOSE x \in S : \A y \in S : y <= x

Min2(a, b) == IF a < b THEN a ELSE b

Kinds(ks) == {i \in 1..Len(out) : out[i].kind \in ks}

ReportedSources(ks) == {out[i].source : i \in Kinds(ks)}

LookupErrored == Kinds({"moduleerror", "providererror"}) # {}

\* C1: once a run has ended in which some lookup returned an error, every entry
\* of the module map and of the provider map has had its result or its own
\* error printed, and main returned from the end of the second loop.
C1_ErrorIsolated ==
    (pc \in {"done", "panic"} /\ LookupErrored) =>
        /\ pc = "done"
        /\ ReportedSources({"module", "moduleerror"}) = DOMAIN moduleMap
        /\ ReportedSources({"provider", "providererror"}) = DOMAIN providerMap

Answered200(list) == call.resp = Ok(list) /\ ret.request # NoRequest

NoneValid(list) == \A i \in 1..Len(list) : ~NewVersion(list[i]).ok

\* C2: a lookup whose registry answer is 200 with a non-empty versions list
\* holding no valid semantic version returns the "not found" marker and no
\* error.
C2_AllInvalidIsNotFound ==
    (pc = "ret" /\ Answered200(call.resp.versions)
       /\ call.resp.versions # <<>> /\ NoneValid(call.resp.versions)) =>
        /\ ret.outcome = "ok"
        /\ ret.val = NotFound

\* C3: a lookup whose registry answer is 200 with a versions list holding at
\* least one valid semantic version returns the formatted version of a valid
\* element that no valid element of the list is greater than.
C3_LatestIsMaximum ==
    (pc = "ret" /\ Answered200(call.resp.versions) /\ ~NoneValid(call.resp.versions)) =>
        LET list == call.resp.versions
        IN  /\ ret.outcome = "ok"
            /\ \E i \in 1..Len(list) :
                 /\ NewVersion(list[i]).ok
                 /\ ret.val = String(NewVersion(list[i]))
                 /\ \A j \in 1..Len(list) :
                      NewVersion(list[j]).ok => Compare(NewVersion(list[j]), NewVersion(list[i])) <= 0

C3_Witness ==
    /\ pc = "ret"
    /\ call.fn = "getLatestProviderVersion"
    /\ call.resp = Ok(<<V100Rc10, Latest, V12>>)
    /\ ret.val = <<"1", ".", "2", ".", "0">>

\* the lines of the block that the step ends: those after the opening line, up
\* to and including the closing line (or the last line of the file)
BlockRange == (blockStart + 1)..Min2(pos, Len(lines))

BlockStep ==
    LET srcs == {i \in BlockRange : lines[i].src # <<>>}
        vers == {i \in BlockRange : lines[i].ver # <<>>}
        src == lines[Max(srcs)].src
        ver == IF vers = {} THEN <<>> ELSE lines[Max(vers)].ver
    IN  /\ (inBlock /\ inBlock') => UNCHANGED mapVars
        /\ (inBlock /\ ~inBlock') =>
              IF srcs # {}
              THEN /\ DOMAIN moduleMap' = DOMAIN moduleMap \cup {src}
                   /\ moduleMap'[src] = ver
                   /\ \A k \in DOMAIN moduleMap \ {src} : moduleMap'[k] = moduleMap[k]
                   /\ declLog' = Append(declLog, Decl("module", src, ver))
                   /\ providerMap' = providerMap
              ELSE UNCHANGED mapVars

Slashes(id) == Cardinality({i \in 1..Len(id) : id[i] = "/"})

\* C5: getLatestProviderVersion requests an identifier with one "/" unchanged,
\* an identifier without "/" as "hashicorp/" followed by it, and answers an
\* identifier with two or more "/" with a format error and no request.
C5_ProviderNormalized ==
    (pc = "ret" /\ call.fn = "getLatestProviderVersion") =>
        /\ Slashes(call.id) = 1 => ret.request = [endpoint |-> "providers", id |-> call.id]
        /\ Slashes(call.id) = 0 =>
              ret.request = [endpoint |-> "providers", id |-> Hashicorp \o call.id]
        /\ Slashes(call.id) >= 2 =>
              /\ ret.outcome = "error"
              /\ ret.err.kind = "format"
              /\ ret.request = NoRequest

C5_Witness ==
    /\ pc = "ret"
    /\ call.id = <<"a", "/", "a", "/">>
    /\ call.resp = Ok(<<V100, V210, V199>>)
    /\ ret.err.kind = "format"

RECURSIVE Ancestors(_)
Ancestors(n) == IF FsParent[n] = NoNode THEN {} ELSE {FsParent[n]} \cup Ancestors(FsParent[n])

\* the entries of the tree the walk is rooted at
InTree(n) == rootPath.node # NoNode /\ (n = rootPath.node \/ rootPath.node \in Ancestors(n))

BeginsWithDot(name) == name # <<>> /\ name[1] = "."

\* n lies below a directory of the walked tree whose name begins with "."
InHiddenDir(n) == \E d \in Ancestors(n) : InTree(d) /\ BeginsWithDot(FsName[d])

\* C6: no file below a directory of the walked tree whose name begins with "."
\* is handed to the extractor, and no declaration of such a file is in a map.
C6_HiddenNeverExtracted ==
    /\ \A n \in extracted : ~InHiddenDir(n)
    /\ InHiddenDir(4) => SrcHidden \notin DOMAIN moduleMap
    /\ InHiddenDir(6) => ProvHidden \notin DOMAIN providerMap

C6_Witness ==
    /\ pc = "modules"
    /\ rootPath = [node |-> 1, base |-> FsName[1]]
    /\ fault = NoFault
    /\ extracted = {2, 8}

\* n is reached from the root through no subdirectory whose name begins with "."
ReachableFile(n) ==
    /\ InTree(n)
    /\ ~FsIsDir[n]
    /\ \A d \in Ancestors(n) : (InTree(d) /\ d # rootPath.node) => ~BeginsWithDot(FsName[d])

\* C7: when the walk of an existing root returns without error, every .tf file
\* reached from the root through no hidden subdirectory was handed to the
\* extractor, whatever the root is called.
C7_EveryTfExtracted ==
    (pc = "modules" /\ rootPath.node # NoNode) =>
        \A n \in Nodes : (ReachableFile(n) /\ Ext(FsName[n]) = DotTf) => n \in extracted

WalkFailed == Kinds({"walkerror"}) # {}

\* C8: once the walk has met an I/O error the run has ended, the error is the
\* last thing printed, no lookup was made and no entry was printed; a file the
\* extractor could not open or read leaves no other outcome.
C8_WalkErrorIsFatal ==
    /\ WalkFailed =>
          /\ pc = "done"
          /\ out[Len(out)].kind = "walkerror"
          /\ lookups = <<>>
          /\ requests = <<>>
          /\ Kinds({"module", "moduleerror", "provider", "providererror"}) = {}
    /\ \A n \in extracted : fault[n] \in {"open", "read"} => (pc = "scan" \/ WalkFailed)

C8_Witness ==
    /\ WalkFailed
    /\ pc = "done"
    /\ fault[8] = "read"
    /\ SrcA \in DOMAIN moduleMap
    /\ ProvAws \in DOMAIN providerMap

Declared(tag) == {i \in 1..Len(declLog) : declLog[i].tag = tag}

LastWrite(tag, m) ==
    /\ DOMAIN m = {declLog[i].source : i \in Declared(tag)}
    /\ \A s \in DOMAIN m :
         m[s] = declLog[Max({i \in Declared(tag) : declLog[i].source = s})].version

\* C9: each map holds exactly the identifiers declared so far, each with the
\* version of its last declaration, and no identifier of a map is looked up or
\* reported more than once.
C9_LastWriteWins ==
    /\ LastWrite("module", moduleMap)
    /\ LastWrite("provider", providerMap)
    /\ \A i, j \in 1..Len(lookups) : lookups[i] = lookups[j] => i = j
    /\ \A i, j \in Kinds({"module", "moduleerror"}) : out[i].source = out[j].source => i = j
    /\ \A i, j \in Kinds({"provider", "providererror"}) : out[i].source = out[j].source => i = j

C9_Witness ==
    /\ pc = "done"
    /\ Len(lookups) = 4
    /\ moduleMap[SrcA] = Ver2
    /\ providerMap[ProvAws] = <<>>
    /\ \E i \in Declared("module") : declLog[i] = Decl("module", SrcA, Ver1)
    /\ moduleMap[SrcASub] = <<>>

\* C10: filepath.Walk is called only with a root path that was given on the
\* command line and found to exist.
C10_WalkOnlyOnValidRoot ==
    walked => (argv.kind = "path" /\ rootPath # Unset /\ pathExists(rootPath))
====
